---- MODULE Spec2Model ----
(***************************************************************************)
(* CatHerder (src/catHerder.py): one run of main(), the generate /        *)
(* execute / repair loop, as a state machine.                             *)
(*                                                                         *)
(* Text is a sequence of one-character strings wherever the code indexes  *)
(* it (the model's reply, the code cut out of it, error texts, tags); the *)
(* fixed literals of the request templates are single elements, since the *)
(* code only concatenates them.                                           *)
(*                                                                         *)
(* The environment chooses the reply of every model call (or its failure)  *)
(* and the outcome of every exec(code): it returns, it raises an Exception *)
(* with some error text, or it raises what "except Exception" lets pass.   *)
(* Reading the files named on the command line and writing under ./scripts *)
(* succeed, and exec(code) is taken to touch neither main's variables nor  *)
(* ./scripts.                                                              *)
(***************************************************************************)
EXTENDS Integers, Sequences, FiniteSets, TLC

VARIABLES args, pc, prompt, code, last_error_message, i, files, log

vars == <<args, pc, prompt, code, last_error_message, i, files, log>>

(***************************************************************************)
(* Bounds                                                                  *)
(***************************************************************************)
MaxIterations == 3

(***************************************************************************)
(* Values                                                                  *)
(***************************************************************************)
\* Python's None (args.prompt, args.modify, last_error_message, unset locals).
None == <<"<None>">>

\* The empty string, as in --prompt "".
EmptyText == << >>

\* bool(x) of an option's value: None and the empty string are false.
Truthy(x) == x # None /\ x # EmptyText

\* str(x) as an f-string renders it.
Str(x) == IF x = None THEN <<"N", "o", "n", "e">> ELSE x

\* The values of --code_type the runs are given.
CodeTypes == {"python", "latex", "html"}

TagChars(code_type) ==
    CASE code_type = "python" -> <<"p", "y", "t", "h", "o", "n">>
      [] code_type = "latex"  -> <<"l", "a", "t", "e", "x">>
      [] code_type = "html"   -> <<"h", "t", "m", "l">>

\* The backquote character, written by name.
Backquote == "BACKQUOTE"

Fence == <<Backquote, Backquote, Backquote>>

\* What the user types and what the files named on the command line hold.
PromptText   == <<"d", "o">>            \* an inline --prompt text
PromptPath   == <<"p", ".", "t">>       \* a --prompt that names a file
PromptFile   == <<"a", "s", "k">>       \* the contents of that file
ModifyPath   == <<"m", ".", "p", "y">>  \* the --modify path
ModifyFile   == <<"o", "l", "d">>       \* the contents of the --modify file
Description  == <<"f", "i", "x">>       \* the answer to input(...)

isfile(path) == path = PromptPath

ReadFile(path) ==
    CASE path = PromptPath -> PromptFile
      [] path = ModifyPath -> ModifyFile

\* The error texts str(e) of the exceptions generated code raises.
ErrorTexts == {<<"e", "1">>, <<"e", "2">>}

\* The replies of the model: prose, a fenced block tagged code_type, prose;
\* and a reply with no fenced block at all.
Reply(code_type, body) ==
    <<"s", "e", "e", "\n">> \o Fence \o TagChars(code_type) \o <<"\n">>
        \o body \o <<"\n">> \o Fence \o <<"\n", "o", "k">>

Bodies == {<<"x", "=", "1">>, <<"y">>}

NoBlockReply == <<"s", "o", "r", "r", "y", ",", " ", "I", " ", "c", "a", "n", "n", "o", "t">>

Replies(code_type) == {Reply(code_type, b) : b \in Bodies} \cup {NoBlockReply}

\* The opening tag extract_code looks for, and the closing one.
StartTag(code_type) == Fence \o TagChars(code_type) \o <<"\n">>
EndTag == <<"\n">> \o Fence

\* A fenced block tagged code_type.
Block(code_type, body) == StartTag(code_type) \o body \o EndTag

OtherType(code_type) == IF code_type = "html" THEN "latex" ELSE "html"

\* Replies put together from what stands before a block, its body, and what
\* follows it: prose, bare fences, blocks of another type, the tag without
\* its newline; bodies of no, one and several lines, with backquotes and
\* blanks; a second block, a stray closing fence.
Preambles(code_type) ==
    { << >>,
      <<"s", "e", "e", "\n">>,
      Fence,
      EndTag \o <<"\n">>,
      Block(OtherType(code_type), <<"q">>) \o <<"\n">>,
      Fence \o TagChars(code_type) \o <<" ">> }

BlockBodies ==
    { << >>,
      <<"y">>,
      <<"x", "\n", "y">>,
      <<"x", "\n">>,
      <<"\n", "x">>,
      <<" ", "x", " ">>,
      Fence \o <<"x">>,
      <<"x", "\n", Backquote, Backquote>>,
      <<"a">> \o EndTag \o <<"b">> }

Postambles(code_type) ==
    { << >>,
      <<"\n", "o", "k">>,
      <<"o">>,
      EndTag,
      <<"\n">> \o Block(code_type, <<"z">>) }

BlockReplies(code_type) ==
    { pre \o Block(code_type, body) \o post :
        pre \in Preambles(code_type), body \in BlockBodies,
        post \in Postambles(code_type) }

(***************************************************************************)
(* str.find and slicing, as Python computes them                           *)
(***************************************************************************)
\* content.find(sub, start): the lowest 0-based index >= start at which sub
\* occurs in content, -1 when there is none.
Find(content, sub, start) ==
    LET hits == {p \in start..(Len(content) - Len(sub)) :
                    SubSeq(content, p + 1, p + Len(sub)) = sub}
    IN IF hits = {} THEN -1
       ELSE CHOOSE p \in hits : \A q \in hits : p <= q

\* One bound of a slice, clamped as Python clamps it.
SliceIndex(n, len) ==
    IF n < 0 THEN (IF n + len < 0 THEN 0 ELSE n + len)
    ELSE (IF n > len THEN len ELSE n)

\* content[start:end]
Slice(content, start, end) ==
    SubSeq(content, SliceIndex(start, Len(content)) + 1, SliceIndex(end, Len(content)))

\* sub occurs in content
Contains(content, sub) == Find(content, sub, 0) # -1

(***************************************************************************)
(* extract_code                                                            *)
(***************************************************************************)
\* extract_code looking for the closing fence from the start of the reply.
extract_code_EndFromZero(content, code_type) ==
    LET start_tag   == Fence \o TagChars(code_type) \o <<"\n">>
        start_index == Find(content, start_tag, 0) + Len(start_tag)
        end_index   == Find(content, <<"\n">> \o Fence, 0)
    IN Slice(content, start_index, end_index)

extract_code(content, code_type) ==
    LET start_tag   == Fence \o TagChars(code_type) \o <<"\n">>
        start_index == Find(content, start_tag, 0) + Len(start_tag)
        end_index   == Find(content, <<"\n">> \o Fence, start_index)
    IN Slice(content, start_index, end_index)

(***************************************************************************)
(* call_chatgpt and debug_code_with_chatgpt: the user message they send    *)
(***************************************************************************)
GenerateInstructions(code_type) ==
    <<"Implement a ">> \o TagChars(code_type)
        \o <<" script in a single code block to perform this task: ">>

\* The default of call_chatgpt's special_instructions parameter.
DefaultInstructions ==
    <<"Implement a script in a single code block to perform this task: ">>

ModifyInstructions(old_code) ==
    <<"Modify the following code:\n\n">> \o old_code \o <<"\n\n">>

\* Line 64 assigns special_instructions anew whatever the caller passed.
UserMessage(prompt_, code_type, special_instructions) ==
    LET special_instructions_ == GenerateInstructions(code_type)
    IN special_instructions_ \o prompt_

RepairPrompt(original_prompt, code_, error) ==
    <<"The original prompt was:\n\n">> \o Str(original_prompt)
        \o <<"\n\nHere is the code:\n\n">> \o code_
        \o <<"\n\nIt produced the following error:\n\n">> \o error
        \o <<"\n\nPlease help me fix it.">>

RepairMessage(original_prompt, code_, error, code_type) ==
    UserMessage(RepairPrompt(original_prompt, code_, error), code_type,
                DefaultInstructions)

(***************************************************************************)
(* save_code_to_file                                                       *)
(***************************************************************************)
Ext(code_type) == IF code_type = "python" THEN <<"p", "y">> ELSE TagChars(code_type)

\* The status labels main() passes.
Initial  == <<"initial">>
Debugged == <<"debugged">>
Final    == <<"final">>
\* IterationStatus without the braces of the f-string: 'iteration_i'.
IterationStatus_Unqualified(n) == <<"iteration_", "i">>
IterationStatus(n) == <<"iteration_", ToString(n)>>

\* ./scripts/script_<status>.<ext>
FilePath(code_type, status) == [status |-> status, ext |-> Ext(code_type)]

Written(fs, path) == path \in DOMAIN fs

\* save_code_to_file that makes ./scripts anew before it writes.
save_code_to_file_Fresh(fs, code_, code_type, status) ==
    [p \in {FilePath(code_type, status)} |-> code_]

save_code_to_file(fs, code_, code_type, status) ==
    [p \in DOMAIN fs \cup {FilePath(code_type, status)} |->
        IF p = FilePath(code_type, status) THEN code_ ELSE fs[p]]

(***************************************************************************)
(* The record of what a run has done, in order                            *)
(***************************************************************************)
CallEvent(message, ok, reply) ==
    [kind |-> "call", text |-> message, outcome |-> IF ok THEN "reply" ELSE "error",
     detail |-> reply, status |-> <<"-">>]

ExecEvent(code_, outcome, error) ==
    [kind |-> "exec", text |-> code_, outcome |-> outcome, detail |-> error,
     status |-> <<"-">>]

WriteEvent(code_, status) ==
    [kind |-> "write", text |-> code_, outcome |-> "saved", detail |-> <<>>,
     status |-> status]

(***************************************************************************)
(* Reading the record of a run                                             *)
(***************************************************************************)
IsCall(ev)  == ev.kind = "call"
IsExec(ev)  == ev.kind = "exec"
IsWrite(ev) == ev.kind = "write"

Calls  == SelectSeq(log, IsCall)
Execs  == SelectSeq(log, IsExec)
Writes == SelectSeq(log, IsWrite)

(***************************************************************************)
(* Init: the command line, before main() parses it                        *)
(***************************************************************************)
Init ==
    /\ args \in [prompt     : {None, EmptyText, PromptText, PromptPath},
                 modify     : {None, EmptyText, ModifyPath},
                 code_type  : CodeTypes,
                 iterations : 0..MaxIterations]
    /\ pc = "parse"
    /\ prompt = None
    /\ code = None
    /\ last_error_message = None
    /\ i = 0
    /\ files = << >>
    /\ log = << >>

(***************************************************************************)
(* main, lines 117-136                                                     *)
(***************************************************************************)
\* Neither --prompt nor --modify: usage is printed and main returns.
Usage ==
    /\ pc = "parse"
    /\ ~Truthy(args.prompt) /\ ~Truthy(args.modify)
    /\ pc' = "usage"
    /\ UNCHANGED <<args, prompt, code, last_error_message, i, files, log>>

\* Startup without the test of line 124.
Startup_Unguarded ==
    /\ pc = "parse"
    /\ pc' = "generate"
    /\ UNCHANGED <<args, prompt, code, last_error_message, i, files, log>>

\* The key file is read and the client is set up.
Startup ==
    /\ pc = "parse"
    /\ ~(~Truthy(args.prompt) /\ ~Truthy(args.modify))
    /\ pc' = "generate"
    /\ UNCHANGED <<args, prompt, code, last_error_message, i, files, log>>

\* read_api_key raises: api_key.txt is missing.
StartupError ==
    /\ pc = "parse"
    /\ ~(~Truthy(args.prompt) /\ ~Truthy(args.modify))
    /\ pc' = "aborted"
    /\ UNCHANGED <<args, prompt, code, last_error_message, i, files, log>>

(***************************************************************************)
(* main, lines 138-149: the prompt and the first generation               *)
(***************************************************************************)
\* The prompt main() resolves from the command line.
ResolvedPrompt ==
    IF Truthy(args.prompt)
    THEN (IF isfile(args.prompt) THEN ReadFile(args.prompt) ELSE args.prompt)
    ELSE Description

\* The user message of the first request.
FirstMessage ==
    IF Truthy(args.prompt)
    THEN UserMessage(ResolvedPrompt, args.code_type, DefaultInstructions)
    ELSE UserMessage(ResolvedPrompt, args.code_type, ModifyInstructions(ReadFile(args.modify)))

GenerateFrom(replies) ==
    /\ pc = "generate"
    /\ \E reply \in replies :
        /\ prompt' = ResolvedPrompt
        /\ code' = extract_code(reply, args.code_type)
        /\ log' = Append(log, CallEvent(FirstMessage, TRUE, reply))
    /\ pc' = "save_initial"
    /\ UNCHANGED <<args, last_error_message, i, files>>

Generate == GenerateFrom(Replies(args.code_type))

\* The first generation, over the replies put together from pieces.
GenerateAnyReply == GenerateFrom(BlockReplies(args.code_type))

\* client.chat.completions.create raises: nothing catches it.
GenerateError ==
    /\ pc = "generate"
    /\ prompt' = ResolvedPrompt
    /\ log' = Append(log, CallEvent(FirstMessage, FALSE, <<>>))
    /\ pc' = "aborted"
    /\ UNCHANGED <<args, code, last_error_message, i, files>>

(***************************************************************************)
(* main, lines 151-162: the first artifact                                 *)
(***************************************************************************)
\* SaveInitialLatex without the return: latex goes on into the loop.
SaveInitialLatex_NoReturn ==
    /\ pc = "save_initial"
    /\ args.code_type = "latex"
    /\ files' = save_code_to_file(files, code, args.code_type, Initial)
    /\ log' = Append(log, WriteEvent(code, Initial))
    /\ last_error_message' = None
    /\ i' = 1
    /\ pc' = "loop"
    /\ UNCHANGED <<args, prompt, code>>

\* latex: the code is saved as "initial" and main returns.
SaveInitialLatex ==
    /\ pc = "save_initial"
    /\ args.code_type = "latex"
    /\ files' = save_code_to_file(files, code, args.code_type, Initial)
    /\ log' = Append(log, WriteEvent(code, Initial))
    /\ pc' = "returned"
    /\ UNCHANGED <<args, prompt, code, last_error_message, i>>

\* SaveInitial with the loop starting at 0: range(0, args.iterations + 1).
SaveInitial_StartsAtZero ==
    /\ pc = "save_initial"
    /\ args.code_type # "latex"
    /\ files' = save_code_to_file(files, code, args.code_type, Initial)
    /\ log' = Append(log, WriteEvent(code, Initial))
    /\ last_error_message' = None
    /\ i' = 0
    /\ pc' = "loop"
    /\ UNCHANGED <<args, prompt, code>>

\* Any other type: the code is saved as "initial" and the loop is entered.
SaveInitial ==
    /\ pc = "save_initial"
    /\ args.code_type # "latex"
    /\ files' = save_code_to_file(files, code, args.code_type, Initial)
    /\ log' = Append(log, WriteEvent(code, Initial))
    /\ last_error_message' = None
    /\ i' = 1
    /\ pc' = "loop"
    /\ UNCHANGED <<args, prompt, code>>

(***************************************************************************)
(* main, lines 164-192: the loop.  i is the iteration about to start;      *)
(* range(1, args.iterations + 1) is over when i > args.iterations.         *)
(***************************************************************************)
\* InLoop with the range one too long: range(1, args.iterations + 2).
InLoop_OneMore == pc = "loop" /\ i <= args.iterations + 1

InLoop == pc = "loop" /\ i <= args.iterations

\* LoopExit with the range one short: range(1, args.iterations).
LoopExit_OneShort ==
    /\ pc = "loop"
    /\ i >= args.iterations
    /\ pc' = "final"
    /\ UNCHANGED <<args, prompt, code, last_error_message, i, files, log>>

\* The range is exhausted.
LoopExit ==
    /\ pc = "loop"
    /\ i > args.iterations
    /\ pc' = "final"
    /\ UNCHANGED <<args, prompt, code, last_error_message, i, files, log>>

\* Lines 170-172: not python, nothing is run and the loop is left.
NotSupported ==
    /\ InLoop
    /\ args.code_type # "python"
    /\ pc' = "final"
    /\ UNCHANGED <<args, prompt, code, last_error_message, i, files, log>>

\* ExecSuccess without the break: the loop goes on to the next iteration.
ExecSuccess_NoBreak ==
    /\ InLoop
    /\ args.code_type = "python"
    /\ files' = save_code_to_file(files, code, args.code_type, Debugged)
    /\ log' = log \o <<ExecEvent(code, "success", <<>>), WriteEvent(code, Debugged)>>
    /\ i' = i + 1
    /\ pc' = "loop"
    /\ UNCHANGED <<args, prompt, code, last_error_message>>

\* ExecSuccess without the "debugged" write.
ExecSuccess_NoSave ==
    /\ InLoop
    /\ args.code_type = "python"
    /\ log' = Append(log, ExecEvent(code, "success", <<>>))
    /\ pc' = "final"
    /\ UNCHANGED <<args, prompt, code, last_error_message, i, files>>

\* Lines 169, 173-176: exec(code) returns; "debugged" is saved; break.
ExecSuccess ==
    /\ InLoop
    /\ args.code_type = "python"
    /\ files' = save_code_to_file(files, code, args.code_type, Debugged)
    /\ log' = log \o <<ExecEvent(code, "success", <<>>), WriteEvent(code, Debugged)>>
    /\ pc' = "final"
    /\ UNCHANGED <<args, prompt, code, last_error_message, i>>

\* SameError against the code instead of the last error text.
SameError_WrongOperand(error_message, last) == error_message = code

\* SameError against every error text seen so far, not only the last one.
SameError_AnyEarlier(error_message, last) ==
    \E k \in DOMAIN Execs : Execs[k].outcome = "raised" /\ Execs[k].detail = error_message

\* Line 181
SameError(error_message, last) == error_message = last

\* ExecRaises without the except clause: the exception leaves main.
ExecRaises_Uncaught ==
    /\ InLoop
    /\ args.code_type = "python"
    /\ \E error_message \in ErrorTexts :
        log' = Append(log, ExecEvent(code, "raised", error_message))
    /\ pc' = "aborted"
    /\ UNCHANGED <<args, prompt, code, last_error_message, i, files>>

\* Lines 169, 177-184: exec(code) raises an Exception whose text is
\* error_message; the same text as last time breaks, a new one is kept.
ExecRaises ==
    /\ InLoop
    /\ args.code_type = "python"
    /\ \E error_message \in ErrorTexts :
        /\ log' = Append(log, ExecEvent(code, "raised", error_message))
        /\ IF SameError(error_message, last_error_message)
           THEN /\ pc' = "final"
                /\ UNCHANGED last_error_message
           ELSE /\ last_error_message' = error_message
                /\ pc' = "repair"
    /\ UNCHANGED <<args, prompt, code, i, files>>

\* Line 169: exec(code) raises what "except Exception" does not catch
\* (SystemExit, KeyboardInterrupt): it leaves main.
ExecEscapes ==
    /\ InLoop
    /\ args.code_type = "python"
    /\ log' = Append(log, ExecEvent(code, "escaped", <<>>))
    /\ pc' = "aborted"
    /\ UNCHANGED <<args, prompt, code, last_error_message, i, files>>

\* Line 187: the first argument of debug_code_with_chatgpt is args.prompt.
OriginalPromptArgument == args.prompt

\* Repair without the "iteration_<i>" write.
Repair_NoSave ==
    /\ pc = "repair"
    /\ \E reply \in Replies(args.code_type) :
        LET message == RepairMessage(OriginalPromptArgument, code,
                                     last_error_message, args.code_type)
        IN /\ code' = extract_code(reply, args.code_type)
           /\ log' = Append(log, CallEvent(message, TRUE, reply))
    /\ i' = i + 1
    /\ pc' = "loop"
    /\ UNCHANGED <<args, prompt, last_error_message, files>>

\* Repair that saves before it assigns: the failed code goes to the file.
Repair_SavesFailedCode ==
    /\ pc = "repair"
    /\ \E reply \in Replies(args.code_type) :
        LET message == RepairMessage(OriginalPromptArgument, code,
                                     last_error_message, args.code_type)
        IN /\ code' = extract_code(reply, args.code_type)
           /\ files' = save_code_to_file(files, code, args.code_type, IterationStatus(i))
           /\ log' = log \o <<CallEvent(message, TRUE, reply),
                              WriteEvent(code, IterationStatus(i))>>
    /\ i' = i + 1
    /\ pc' = "loop"
    /\ UNCHANGED <<args, prompt, last_error_message>>

\* Lines 187-192: the repair request, its reply saved as "iteration_<i>".
Repair ==
    /\ pc = "repair"
    /\ \E reply \in Replies(args.code_type) :
        LET message == RepairMessage(OriginalPromptArgument, code,
                                     last_error_message, args.code_type)
            fixed   == extract_code(reply, args.code_type)
        IN /\ code' = fixed
           /\ files' = save_code_to_file(files, fixed, args.code_type, IterationStatus(i))
           /\ log' = log \o <<CallEvent(message, TRUE, reply),
                              WriteEvent(fixed, IterationStatus(i))>>
    /\ i' = i + 1
    /\ pc' = "loop"
    /\ UNCHANGED <<args, prompt, last_error_message>>

\* RepairError that asks again after a failed request.
RepairError_Retry ==
    /\ pc = "repair"
    /\ Len(Calls) <= args.iterations
    /\ log' = Append(log, CallEvent(RepairMessage(OriginalPromptArgument, code,
                                     last_error_message, args.code_type), FALSE, <<>>))
    /\ pc' = "repair"
    /\ UNCHANGED <<args, prompt, code, last_error_message, i, files>>

\* The repair request raises inside the except block: it leaves main.
RepairError ==
    /\ pc = "repair"
    /\ log' = Append(log, CallEvent(RepairMessage(OriginalPromptArgument, code,
                                     last_error_message, args.code_type), FALSE, <<>>))
    /\ pc' = "aborted"
    /\ UNCHANGED <<args, prompt, code, last_error_message, i, files>>

(***************************************************************************)
(* main, lines 194-198                                                     *)
(***************************************************************************)
\* SaveFinal that writes only when no execution failed.
SaveFinal_OnlyWhenClean ==
    /\ pc = "final"
    /\ IF last_error_message = None
       THEN /\ files' = save_code_to_file(files, code, args.code_type, Final)
            /\ log' = Append(log, WriteEvent(code, Final))
       ELSE UNCHANGED <<files, log>>
    /\ pc' = "done"
    /\ UNCHANGED <<args, prompt, code, last_error_message, i>>

SaveFinal ==
    /\ pc = "final"
    /\ files' = save_code_to_file(files, code, args.code_type, Final)
    /\ log' = Append(log, WriteEvent(code, Final))
    /\ pc' = "done"
    /\ UNCHANGED <<args, prompt, code, last_error_message, i>>

Next ==
    \/ Usage
    \/ Startup
    \/ StartupError
    \/ Generate
    \/ GenerateError
    \/ SaveInitialLatex
    \/ SaveInitial
    \/ LoopExit
    \/ NotSupported
    \/ ExecSuccess
    \/ ExecRaises
    \/ ExecEscapes
    \/ Repair
    \/ RepairError
    \/ SaveFinal

Spec == Init /\ [][Next]_vars

\* main is one synchronous thread: as long as a step is possible (the call
\* or the exec it waits for comes back), it is taken.
FairSpec == Spec /\ WF_vars(Next)

\* ./scripts as earlier runs left it: a python run that succeeded at its
\* second iteration; then, in the same directory, a python run that used up
\* three iterations; then an html run.
DirAfterSuccess ==
    LET d1 == save_code_to_file(<< >>, <<"y">>, "python", Initial)
        d2 == save_code_to_file(d1, <<"x", "=", "1">>, "python", IterationStatus(1))
        d3 == save_code_to_file(d2, <<"x", "=", "1">>, "python", Debugged)
    IN save_code_to_file(d3, <<"x", "=", "1">>, "python", Final)

DirAfterExhausted ==
    LET d1 == save_code_to_file(DirAfterSuccess, <<"x", "=", "1">>, "python", Initial)
        d2 == save_code_to_file(d1, <<"y">>, "python", IterationStatus(1))
        d3 == save_code_to_file(d2, <<"x", "=", "1">>, "python", IterationStatus(2))
        d4 == save_code_to_file(d3, <<"x", "=", "1">>, "python", IterationStatus(3))
    IN save_code_to_file(d4, <<"x", "=", "1">>, "python", Final)

DirAfterHtml ==
    LET d1 == save_code_to_file(DirAfterExhausted, <<"y">>, "html", Initial)
    IN save_code_to_file(d1, <<"y">>, "html", Final)

PriorDirectories == {DirAfterSuccess, DirAfterExhausted, DirAfterHtml}

\* A run started in a directory earlier runs have written to.
DirInit ==
    /\ args \in [prompt     : {None, EmptyText, PromptText, PromptPath},
                 modify     : {None, EmptyText, ModifyPath},
                 code_type  : CodeTypes,
                 iterations : 0..MaxIterations]
    /\ pc = "parse"
    /\ prompt = None
    /\ code = None
    /\ last_error_message = None
    /\ i = 0
    /\ files \in PriorDirectories
    /\ log = << >>

DirSpec == DirInit /\ [][Next]_vars

\* main up to the return of the first call_chatgpt, the reply being any of
\* BlockReplies.
ExtractNext ==
    \/ Usage
    \/ Startup
    \/ StartupError
    \/ GenerateAnyReply
    \/ GenerateError

ExtractSpec == Init /\ [][ExtractNext]_vars

(***************************************************************************)
(* Reading the record of a run, continued                                  *)
(***************************************************************************)
WriteLabels == [n \in DOMAIN Writes |-> Writes[n].status]

\* The place in log of the k-th execution; past the end when there is none.
ExecPos(k) ==
    IF k > Len(Execs) THEN Len(log) + 1
    ELSE CHOOSE n \in DOMAIN log :
            /\ IsExec(log[n])
            /\ Cardinality({m \in 1..n : IsExec(log[m])}) = k

IsPython == args.code_type = "python"

FinalPath    == FilePath(args.code_type, Final)
DebuggedPath == FilePath(args.code_type, Debugged)
InitialPath  == FilePath(args.code_type, Initial)

\* The code the k-th model call returned to main.
CodeOfCall(k) == extract_code(Calls[k].detail, args.code_type)

\* Executions k and k+1 both raised, with the same error text.
RepeatedErrorAt(k) ==
    /\ k + 1 <= Len(Execs)
    /\ Execs[k].outcome = "raised"
    /\ Execs[k + 1].outcome = "raised"
    /\ Execs[k].detail = Execs[k + 1].detail

\* Every execution so far raised, and no two in a row raised the same text.
AllFailedNoRepeat ==
    /\ \A k \in DOMAIN Execs : Execs[k].outcome = "raised"
    /\ \A k \in DOMAIN Execs : ~RepeatedErrorAt(k)

(***************************************************************************)
(* C1  Stagnation law.  In a python run, when executions k and k+1 both    *)
(* raise the same error text, execution k+1 is the last one, no model call *)
(* follows it, the loop has been left, and once the run is over the last   *)
(* write is "final", holding the code that execution k+1 ran.              *)
(***************************************************************************)
C1_StagnationLaw ==
    \A k \in DOMAIN Execs :
        (IsPython /\ RepeatedErrorAt(k)) =>
            /\ Len(Execs) = k + 1
            /\ \A n \in (ExecPos(k + 1) + 1)..Len(log) : ~IsCall(log[n])
            /\ pc \in {"final", "done"}
            /\ pc = "done" =>
                /\ log[Len(log)] = WriteEvent(Execs[k + 1].text, Final)
                /\ Len(log) = ExecPos(k + 1) + 1
                /\ files[FinalPath] = Execs[k + 1].text

C1_Witness ==
    /\ pc = "done"
    /\ IsPython
    /\ \E k \in DOMAIN Execs : k >= 2 /\ RepeatedErrorAt(k)

(***************************************************************************)
(* C2  Exhaustion law.  A python run with max_iterations = N that is over, *)
(* in which every execution raised and no two consecutive error texts were *)
(* equal, made exactly N executions and N + 1 model calls (N of them       *)
(* repairs), and "final" holds the code the last model call returned.      *)
(***************************************************************************)
C2_ExhaustionLaw ==
    (pc = "done" /\ IsPython /\ AllFailedNoRepeat) =>
        /\ Len(Execs) = args.iterations
        /\ Len(Calls) = args.iterations + 1
        /\ \A k \in DOMAIN Calls : Calls[k].outcome = "reply"
        /\ log[Len(log)] = WriteEvent(CodeOfCall(Len(Calls)), Final)
        /\ files[FinalPath] = CodeOfCall(Len(Calls))

C2_Witness ==
    /\ pc = "done"
    /\ IsPython
    /\ AllFailedNoRepeat
    /\ args.iterations >= 3
    /\ Len(Execs) = args.iterations

\* A python run is over and its first execution succeeded.
FirstTrySuccess ==
    /\ IsPython
    /\ Len(Execs) >= 1
    /\ Execs[1].outcome = "success"

(***************************************************************************)
(* C3  As claimed: a python run whose first execution succeeds writes      *)
(* exactly two artifacts, "initial" and "debugged", with one execution and *)
(* one model call.                                                         *)
(***************************************************************************)
C3_AsClaimed ==
    (pc = "done" /\ FirstTrySuccess) =>
        /\ WriteLabels = <<Initial, Debugged>>
        /\ Len(Execs) = 1
        /\ Len(Calls) = 1

(***************************************************************************)
(* C3  As amended: a python run whose first execution succeeds makes one   *)
(* execution and one model call, leaves the loop at iteration 1, and once  *)
(* it is over has written exactly three artifacts, "initial", "debugged"   *)
(* and "final" in that order, all holding the generated code.              *)
(***************************************************************************)
C3_FirstTrySuccess ==
    FirstTrySuccess =>
        /\ Len(Execs) = 1
        /\ Len(Calls) = 1
        /\ i = 1
        /\ pc \in {"final", "done"}
        /\ pc = "done" =>
            /\ WriteLabels = <<Initial, Debugged, Final>>
            /\ \A n \in DOMAIN Writes : Writes[n].text = CodeOfCall(1)

C3_Witness ==
    /\ pc = "done"
    /\ FirstTrySuccess
    /\ args.iterations >= 2

\* A run that is over: main has returned.
RunOver == pc \in {"returned", "done"}

(***************************************************************************)
(* C4  As claimed: a run of any code_type other than python that is over   *)
(* made exactly one model call and no execution and wrote exactly one      *)
(* artifact, "initial".                                                    *)
(***************************************************************************)
C4_AsClaimed ==
    (~IsPython /\ RunOver) =>
        /\ Len(Calls) = 1
        /\ Len(Execs) = 0
        /\ WriteLabels = <<Initial>>

(***************************************************************************)
(* C4  As amended: a run of any code_type other than python never executes *)
(* anything and makes one model call; when code_type is latex it writes    *)
(* "initial" alone and returns at once; for any other tag it enters the    *)
(* loop, leaves it without executing, and writes "initial" and then        *)
(* "final", both holding the generated code.                               *)
(***************************************************************************)
C4_NonPython ==
    ~IsPython =>
        /\ Len(Execs) = 0
        /\ Len(Calls) <= 1
        /\ pc # "repair"
        /\ (args.code_type = "latex") => pc # "done"
        /\ (args.code_type # "latex") => pc # "returned"
        /\ RunOver =>
            /\ Len(Calls) = 1
            /\ WriteLabels =
                  IF args.code_type = "latex" THEN <<Initial>> ELSE <<Initial, Final>>
            /\ \A n \in DOMAIN Writes : Writes[n].text = CodeOfCall(1)
            /\ DOMAIN files = {FilePath(args.code_type, WriteLabels[n]) : n \in DOMAIN Writes}

C4_Witness ==
    /\ args.code_type = "html"
    /\ args.iterations >= 1
    /\ pc = "done"
    /\ WriteLabels = <<Initial, Final>>

\* The last thing the run did was to write "final", holding the last code a
\* model call returned.
FinalWrittenLast ==
    /\ Len(Calls) >= 1
    /\ Len(log) >= 1
    /\ log[Len(log)] = WriteEvent(CodeOfCall(Len(Calls)), Final)
    /\ Cardinality({n \in DOMAIN Writes : Writes[n].status = Final}) = 1
    /\ Written(files, FinalPath)
    /\ files[FinalPath] = CodeOfCall(Len(Calls))

\* The loop has been left: by success, by a repeated error, or by running
\* out of iterations.
LoopLeft == pc \in {"final", "done"}

(***************************************************************************)
(* C5  Every run that leaves the loop (success, repeated error, iterations *)
(* exhausted) writes "final" as its last write, holding the last code the  *)
(* model produced: the only step out of the state in which the loop has    *)
(* just been left is that write, and a finished run has made it.           *)
(***************************************************************************)
C5_FinalAlwaysWritten ==
    /\ [](pc = "done" => FinalWrittenLast)
    /\ [][(pc = "final") => (pc' = "done" /\ FinalWrittenLast')]_vars

C5_Witness ==
    /\ pc = "done"
    /\ IsPython
    /\ FinalWrittenLast
    /\ Len(Calls) >= 3
    /\ \E k \in DOMAIN Execs : RepeatedErrorAt(k)

\* A python run that is over and whose last execution succeeded.
EndedInSuccess ==
    /\ pc = "done"
    /\ IsPython
    /\ Len(Execs) >= 1
    /\ Execs[Len(Execs)].outcome = "success"

(***************************************************************************)
(* C6  A python run that ends in success at any iteration has written      *)
(* "initial", "debugged" and "final", and "final" and "debugged" hold the  *)
(* same content: the code whose execution succeeded.                       *)
(***************************************************************************)
C6_SuccessArtifacts ==
    EndedInSuccess =>
        /\ {Initial, Debugged, Final} \subseteq {WriteLabels[n] : n \in DOMAIN Writes}
        /\ {InitialPath, DebuggedPath, FinalPath} \subseteq DOMAIN files
        /\ files[FinalPath] = files[DebuggedPath]
        /\ files[DebuggedPath] = Execs[Len(Execs)].text

C6_Witness ==
    /\ EndedInSuccess
    /\ Len(Execs) >= 2
    /\ files[FinalPath] # files[InitialPath]

\* The writes between execution j and the next execution (or the end).
WritesOfIteration(j) ==
    {n \in (ExecPos(j) + 1)..(ExecPos(j + 1) - 1) : IsWrite(log[n])}

\* Those of them the loop body made.
LoopWritesOfIteration(j) ==
    {n \in WritesOfIteration(j) : log[n].status # Final}

(***************************************************************************)
(* C7  As claimed: in a finished python run every iteration the loop       *)
(* entered accounts for exactly one artifact write.                        *)
(***************************************************************************)
C7_AsClaimed ==
    (pc = "done" /\ IsPython) =>
        \A j \in DOMAIN Execs : Cardinality(WritesOfIteration(j)) = 1

(***************************************************************************)
(* C7  As amended: in a finished python run the loop body writes exactly   *)
(* one artifact in an iteration that succeeds ("debugged") or fails with a *)
(* new error ("iteration_<i>") and none in an iteration that fails with a  *)
(* repeated error; "final" is written once, after the loop, so the         *)
(* iteration that ends the loop accounts for two writes when it succeeded  *)
(* or exhausted the budget and for one when it repeated an error.          *)
(***************************************************************************)
C7_WritesPerIteration ==
    (pc = "done" /\ IsPython) =>
        \A j \in DOMAIN Execs :
            /\ Execs[j].outcome = "success" =>
                  {log[n].status : n \in LoopWritesOfIteration(j)} = {Debugged}
            /\ (Execs[j].outcome = "raised" /\ (j = 1 \/ ~RepeatedErrorAt(j - 1))) =>
                  {log[n].status : n \in LoopWritesOfIteration(j)} = {IterationStatus(j)}
            /\ (j > 1 /\ RepeatedErrorAt(j - 1)) => LoopWritesOfIteration(j) = {}
            /\ Cardinality(LoopWritesOfIteration(j)) <= 1
            /\ Cardinality(WritesOfIteration(j)) =
                  IF j < Len(Execs) THEN 1
                  ELSE IF j > 1 /\ RepeatedErrorAt(j - 1) THEN 1 ELSE 2

C7_Witness ==
    /\ pc = "done"
    /\ IsPython
    /\ Len(Execs) >= 3
    /\ Execs[Len(Execs)].outcome = "success"

\* The place in log of the k-th model call.
CallPos(k) ==
    CHOOSE n \in DOMAIN log :
        /\ IsCall(log[n])
        /\ Cardinality({m \in 1..n : IsCall(log[m])}) = k

ModifyMode == ~Truthy(args.prompt) /\ Truthy(args.modify)

(***************************************************************************)
(* C8  In modify mode the user message of the generation request is the    *)
(* modification prefix followed by the prompt, so the contents of the file *)
(* named by --modify appear in it verbatim.                                *)
(***************************************************************************)
C8_ModifyMessage ==
    (ModifyMode /\ Len(Calls) >= 1) =>
        /\ Calls[1].text = ModifyInstructions(ReadFile(args.modify)) \o prompt
        /\ Contains(Calls[1].text, ReadFile(args.modify))

(***************************************************************************)
(* C9  Every repair request embeds the original prompt, the code that just *)
(* failed and the text of that failure; the prompt it embeds is the prompt *)
(* text sent for the first generation, however that prompt was supplied.   *)
(***************************************************************************)
C9_RepairEmbedsPrompt ==
    \A k \in 2..Len(Calls) :
        LET failed == log[CallPos(k) - 1]
        IN /\ Calls[k].text =
                GenerateInstructions(args.code_type)
                    \o RepairPrompt(prompt, failed.text, failed.detail)
           /\ Contains(Calls[k].text, prompt)
           /\ Contains(Calls[k].text, failed.text)
           /\ Contains(Calls[k].text, failed.detail)
           /\ Contains(Calls[1].text, prompt)

\* A model call failed.
FailedCallAt(n) == IsCall(log[n]) /\ log[n].outcome = "error"

\* The last thing the run did was a model call that failed.
EndedByFailedCall == Len(log) >= 1 /\ FailedCallAt(Len(log))

(***************************************************************************)
(* C10  A failed model call, first generation or repair, ends the run: it  *)
(* is the last thing the run does (no later call, execution or write, main *)
(* left by the exception), the step in which it fails writes no file, and  *)
(* nothing changes afterwards; and every repair call directly follows an   *)
(* execution of the generated code that raised.                            *)
(***************************************************************************)
C10_ModelFailureFatal ==
    /\ [](\A n \in DOMAIN log : FailedCallAt(n) => (n = Len(log) /\ pc = "aborted"))
    /\ [](\A k \in 2..Len(Calls) :
            /\ IsExec(log[CallPos(k) - 1])
            /\ log[CallPos(k) - 1].outcome = "raised")
    /\ [][(~EndedByFailedCall /\ EndedByFailedCall')
            => (files' = files /\ Writes' = Writes /\ Execs' = Execs)]_vars
    /\ [][EndedByFailedCall => UNCHANGED vars]_vars

C10_Witness ==
    /\ pc = "aborted"
    /\ Len(Calls) >= 3
    /\ EndedByFailedCall
    /\ Written(files, FilePath(args.code_type, IterationStatus(1)))

\* The three ways a python run leaves the loop.
Success   == Len(Execs) >= 1 /\ Execs[Len(Execs)].outcome = "success"
Stagnant  == Len(Execs) >= 2 /\ RepeatedErrorAt(Len(Execs) - 1)
Exhausted == AllFailedNoRepeat /\ Len(Execs) = args.iterations

\* The repair calls made so far: every model call after the first.
RepairCalls == IF Len(Calls) = 0 THEN 0 ELSE Len(Calls) - 1

(***************************************************************************)
(* C11  The loop is bounded by max_iterations = N: a run never makes more  *)
(* than N executions nor more than N repair calls; a python run that has   *)
(* left the loop is in exactly one of Success, Stagnant, Exhausted; and a  *)
(* python run that starts generating leaves the loop eventually, unless a  *)
(* model call fails or an exception of the executed code escapes.          *)
(***************************************************************************)
C11_BoundedLoop ==
    /\ [](Len(Execs) <= args.iterations /\ RepairCalls <= args.iterations)
    /\ []((IsPython /\ LoopLeft) =>
            /\ Success \/ Stagnant \/ Exhausted
            /\ ~(Success /\ Stagnant) /\ ~(Success /\ Exhausted)
            /\ ~(Stagnant /\ Exhausted))
    /\ (IsPython /\ pc = "generate") ~> (LoopLeft \/ pc = "aborted")

C11_Witness ==
    /\ IsPython
    /\ pc = "done"
    /\ Exhausted
    /\ args.iterations >= 3
    /\ RepairCalls = args.iterations

(***************************************************************************)
(* C12  Extraction round trip.  When the reply is: text without the        *)
(* opening tag, then the opening tag, a body in which no newline is        *)
(* followed by a fence, the closing newline and fence, then any text       *)
(* (a further tagged block included), call_chatgpt returns exactly the     *)
(* body of that first block.                                               *)
(***************************************************************************)
C12_ExtractionRoundTrip ==
    \A pre \in Preambles(args.code_type), body \in BlockBodies,
       post \in Postambles(args.code_type) :
        ( /\ pc = "save_initial"
          /\ Calls[1].detail = pre \o Block(args.code_type, body) \o post
          /\ ~Contains(pre, StartTag(args.code_type))
          /\ ~Contains(body, EndTag) )
        => code = body

C12_Witness ==
    /\ pc = "save_initial"
    /\ Calls[1].detail =
          (EndTag \o <<"\n">>) \o Block(args.code_type, <<"x", "\n", "y">>)
              \o (<<"\n">> \o Block(args.code_type, <<"z">>))
    /\ code = <<"x", "\n", "y">>

\* The n-th thing the run did was a model call that came back with a reply
\* lacking the opening tag of the requested type.
ReplyWithoutTagAt(n) ==
    /\ IsCall(log[n])
    /\ log[n].outcome = "reply"
    /\ ~Contains(log[n].detail, StartTag(args.code_type))

(***************************************************************************)
(* C13  A reply without the opening tag of the requested code_type makes   *)
(* extraction fail and ends the run: nothing follows that model call, no   *)
(* write, no execution, no further call.                                   *)
(***************************************************************************)
C13_NoTagIsFatal ==
    \A n \in DOMAIN log :
        ReplyWithoutTagAt(n) => (n = Len(log) /\ pc = "aborted")

\* The option was given on the command line, with a non-empty value.
Supplied(x) == Truthy(x)

\* Nothing has been done: no model call, no execution, no write.
NothingDone == log = << >> /\ files = << >>

(***************************************************************************)
(* C14  As claimed: when neither or both of --prompt and --modify are      *)
(* supplied, usage is printed and main returns having done nothing; a      *)
(* model call happens only when exactly one of the two is supplied.        *)
(***************************************************************************)
C14_AsClaimed ==
    /\ (Supplied(args.prompt) <=> Supplied(args.modify)) =>
            (pc \in {"parse", "usage"} /\ NothingDone)
    /\ Len(Calls) >= 1 => ~(Supplied(args.prompt) <=> Supplied(args.modify))

(***************************************************************************)
(* C14  As amended: at least one of --prompt and --modify must be supplied *)
(* with a non-empty value.  When neither is, usage is printed and main     *)
(* returns having done nothing; otherwise usage is never printed; a model  *)
(* call happens only when at least one is supplied; and when both are,     *)
(* --prompt wins: the request is built from the prompt alone.              *)
(***************************************************************************)
C14_UsageRule ==
    /\ (~Truthy(args.prompt) /\ ~Truthy(args.modify)) =>
            (pc \in {"parse", "usage"} /\ NothingDone)
    /\ (Truthy(args.prompt) \/ Truthy(args.modify)) => pc # "usage"
    /\ Len(Calls) >= 1 => (Truthy(args.prompt) \/ Truthy(args.modify))
    /\ (Truthy(args.prompt) /\ Truthy(args.modify) /\ Len(Calls) >= 1) =>
            /\ prompt = IF isfile(args.prompt) THEN ReadFile(args.prompt)
                        ELSE args.prompt
            /\ Calls[1].text = GenerateInstructions(args.code_type) \o prompt

C14_Witness ==
    /\ Truthy(args.prompt) /\ Truthy(args.modify)
    /\ pc = "done"
    /\ Len(Calls) >= 1
    /\ Written(files, FinalPath)

\* The loop stopped at execution j without asking for a repair: the run has
\* left the loop and no model call follows that execution.
StoppedAt(j) ==
    /\ LoopLeft
    /\ \A n \in (ExecPos(j) + 1)..Len(log) : ~IsCall(log[n])

(***************************************************************************)
(* C15  Stagnation is judged against the immediately preceding failure     *)
(* only: after an execution j that raised, the loop stops without a repair *)
(* call if and only if j >= 2 and execution j - 1 raised the same text.    *)
(* So the first failure never stops the loop, and a text that comes back   *)
(* after a different one (A, B, A) does not stop it either.                *)
(***************************************************************************)
C15_StagnationOnlyConsecutive ==
    \A j \in DOMAIN Execs :
        Execs[j].outcome = "raised" =>
            /\ StoppedAt(j) <=> (j >= 2 /\ RepeatedErrorAt(j - 1))
            /\ (ExecPos(j) = Len(log)) =>
                  pc = (IF j >= 2 /\ RepeatedErrorAt(j - 1) THEN "final" ELSE "repair")

\* Errors A, B, A: the third failure repeats the first and the loop goes on.
C15_Witness ==
    /\ Len(Execs) = 3
    /\ \A j \in 1..3 : Execs[j].outcome = "raised"
    /\ Execs[1].detail = Execs[3].detail
    /\ Execs[1].detail # Execs[2].detail
    /\ pc = "done"
    /\ Len(Calls) = 4

\* The n-th thing the run did was an execution that did not return.
ExecFailedAt(n) == IsExec(log[n]) /\ log[n].outcome # "success"

\* The run was ended by an exception of the executed code.
EndedByExec == pc = "aborted" /\ Len(log) >= 1 /\ IsExec(log[Len(log)])

(***************************************************************************)
(* C16  As claimed: whatever the executed code raises is caught and its    *)
(* text kept as the failure; it never ends the run, and a run in which an  *)
(* execution failed still writes "final" once it is over.                  *)
(***************************************************************************)
C16_AsClaimed ==
    \A n \in DOMAIN log :
        ExecFailedAt(n) =>
            /\ ~EndedByExec
            /\ log[n].outcome = "raised"
            /\ (n = Len(log)) => last_error_message = log[n].detail \/ pc = "final"

(***************************************************************************)
(* C16  As amended: every exception of class Exception raised by the       *)
(* executed code is caught and its text becomes the failure fed to the     *)
(* loop (a repair call, or the stop on a repeated text), and it never ends *)
(* the run; an exception outside Exception (SystemExit, KeyboardInterrupt) *)
(* is not caught: it ends the run at once, nothing follows it and no       *)
(* "final" artifact is written.                                            *)
(***************************************************************************)
C16_OnlyExceptionCaught ==
    \A n \in DOMAIN log :
        /\ (IsExec(log[n]) /\ log[n].outcome = "raised") =>
              /\ ~(n = Len(log) /\ pc = "aborted")
              /\ (n = Len(log)) =>
                    /\ pc \in {"repair", "final"}
                    /\ last_error_message = log[n].detail
        /\ (IsExec(log[n]) /\ log[n].outcome = "escaped") =>
              /\ n = Len(log)
              /\ pc = "aborted"
              /\ \A m \in DOMAIN Writes : Writes[m].status # Final
              /\ ~Written(files, FinalPath)

C16_Witness ==
    /\ EndedByExec
    /\ log[Len(log)].outcome = "escaped"
    /\ Len(Execs) >= 2
    /\ Execs[1].outcome = "raised"

\* The path the n-th write of the run went to.
PathOfWrite(n) == FilePath(args.code_type, Writes[n].status)

\* The number of writes of the run under a status.
WritesUnder(status) == Cardinality({n \in DOMAIN Writes : Writes[n].status = status})

(***************************************************************************)
(* C17  Within one run every artifact path is written at most once:        *)
(* "initial", "debugged" and "final" at most once each, "iteration_<i>"    *)
(* at most once for each i, no two writes go to the same path, and so      *)
(* every file written still holds what its one write put there.            *)
(***************************************************************************)
C17_WriteOnce ==
    /\ WritesUnder(Initial) <= 1
    /\ WritesUnder(Debugged) <= 1
    /\ WritesUnder(Final) <= 1
    /\ \A k \in 1..(args.iterations + 1) : WritesUnder(IterationStatus(k)) <= 1
    /\ \A m, n \in DOMAIN Writes : m # n => PathOfWrite(m) # PathOfWrite(n)
    /\ \A n \in DOMAIN Writes :
          /\ Written(files, PathOfWrite(n))
          /\ files[PathOfWrite(n)] = Writes[n].text

C17_Witness ==
    /\ pc = "done"
    /\ Len(Writes) >= 5
    /\ \E m, n \in DOMAIN Writes : m # n /\ Writes[m].text # Writes[n].text

\* The status of the artifact written last before iteration j executes.
StatusBeforeIteration(j) == IF j = 1 THEN Initial ELSE IterationStatus(j - 1)

(***************************************************************************)
(* C18  In a python run the code executed at iteration j is the content of *)
(* the artifact written just before: the step before the execution is the  *)
(* write of "initial" (j = 1) or of "iteration_<j-1>" (j > 1), it wrote    *)
(* exactly the code executed, and the file holds that code.                *)
(***************************************************************************)
C18_ExecutedCodeIsSaved ==
    \A j \in DOMAIN Execs :
        LET before == log[ExecPos(j) - 1]
        IN /\ IsPython
           /\ ExecPos(j) >= 2
           /\ IsWrite(before)
           /\ before.status = StatusBeforeIteration(j)
           /\ before.text = Execs[j].text
           /\ Written(files, FilePath(args.code_type, StatusBeforeIteration(j)))
           /\ files[FilePath(args.code_type, StatusBeforeIteration(j))] = Execs[j].text

C18_Witness ==
    /\ Len(Execs) = 3
    /\ Execs[1].text # Execs[2].text
    /\ Execs[2].text # Execs[3].text
    /\ pc = "done"

\* The model calls that came back with a reply.
RepliedCalls == Cardinality({k \in DOMAIN Calls : Calls[k].outcome = "reply"})

(***************************************************************************)
(* C19  As claimed: a python run with N >= 1 that is over after N failures *)
(* with no repeated text has saved the output of the N-th repair call as   *)
(* "iteration_<N>" and as "final", and that code has never been executed   *)
(* in the run; and there are never more executions than model calls.       *)
(* (Stated of the runs in which every reply held a tagged block.)          *)
(***************************************************************************)
C19_AsClaimed ==
    /\ Len(Execs) <= RepliedCalls
    /\ ( /\ pc = "done" /\ IsPython /\ AllFailedNoRepeat /\ args.iterations >= 1
         /\ \A n \in DOMAIN log : ~ReplyWithoutTagAt(n) ) =>
          /\ files[FilePath(args.code_type, IterationStatus(args.iterations))]
                = CodeOfCall(Len(Calls))
          /\ files[FinalPath] = CodeOfCall(Len(Calls))
          /\ \A j \in DOMAIN Execs : Execs[j].text # files[FinalPath]

(***************************************************************************)
(* C19  As amended.                                                        *)
(* Execution j runs the code the j-th model call returned, after that      *)
(* call and before the next one, so there are never more executions than   *)
(* model calls and the code of the repair made in iteration j is run only  *)
(* by an iteration j + 1.  A python run with N >= 1 that is over after N   *)
(* failures with no repeated text made N + 1 calls and N executions:       *)
(* "iteration_<N>" and "final" hold the code of the N-th repair, and no    *)
(* execution follows that repair.                                          *)
(***************************************************************************)
C19_LastRepairNeverRun ==
    /\ Len(Execs) <= RepliedCalls
    /\ \A j \in DOMAIN Execs :
          /\ j <= Len(Calls)
          /\ Calls[j].outcome = "reply"
          /\ Execs[j].text = CodeOfCall(j)
          /\ CallPos(j) < ExecPos(j)
          /\ (j < Len(Calls)) => ExecPos(j) < CallPos(j + 1)
    /\ (pc = "done" /\ IsPython /\ AllFailedNoRepeat /\ args.iterations >= 1) =>
          LET N == args.iterations
          IN /\ Len(Calls) = N + 1
             /\ Len(Execs) = N
             /\ \A n \in CallPos(N + 1)..Len(log) : ~IsExec(log[n])
             /\ files[FilePath(args.code_type, IterationStatus(N))] = CodeOfCall(N + 1)
             /\ files[FinalPath] = CodeOfCall(N + 1)

C19_Witness ==
    /\ pc = "done"
    /\ IsPython
    /\ AllFailedNoRepeat
    /\ args.iterations = 2
    /\ Len(Calls) = 3
    /\ \A j \in DOMAIN Execs : Execs[j].text # CodeOfCall(3)

\* The paths this run has written.
WrittenPaths == {PathOfWrite(n) : n \in DOMAIN Writes}

\* files is directory d plus what this run wrote: every file of d is still
\* there, with its content of d unless this run wrote that path.
KeepsDirectory(d) ==
    /\ DOMAIN files = DOMAIN d \cup WrittenPaths
    /\ \A p \in DOMAIN d \ WrittenPaths : files[p] = d[p]

\* One step: no file goes away, and a file changes only by a write of this
\* step to its path.
FrameStep ==
    \A p \in DOMAIN files :
        /\ p \in DOMAIN files'
        /\ files'[p] # files[p] =>
              \E n \in (Len(log) + 1)..Len(log') :
                  /\ IsWrite(log'[n])
                  /\ FilePath(args.code_type, log'[n].status) = p
                  /\ log'[n].text = files'[p]

(***************************************************************************)
(* C20  A run started in a directory that earlier runs wrote to changes    *)
(* only the files it writes itself: no step removes a file or changes one  *)
(* it does not write, so every file of an earlier run whose path this run  *)
(* has not written is still there with its earlier content.                *)
(***************************************************************************)
C20_OtherFilesKept ==
    /\ [](\E d \in PriorDirectories : KeepsDirectory(d))
    /\ [][FrameStep]_vars

\* After a python run in the directory of an earlier successful run that
\* wrote neither "debugged" nor "iteration_1": both are as they were, while
\* "final" has been rewritten.
C20_Witness ==
    /\ pc = "done"
    /\ IsPython
    /\ DebuggedPath \notin WrittenPaths
    /\ FilePath("python", IterationStatus(1)) \notin WrittenPaths
    /\ Written(files, DebuggedPath)
    /\ files[DebuggedPath] = DirAfterSuccess[DebuggedPath]
    /\ files[FilePath("python", IterationStatus(1))]
          = DirAfterSuccess[FilePath("python", IterationStatus(1))]
    /\ files[FinalPath] # DirAfterSuccess[FinalPath]
    /\ DOMAIN files = DOMAIN DirAfterSuccess

====
